---- MODULE Spec2Model ----
(***************************************************************************)
(* A model of the NUFFT operator of pynufft: class NUFFT_cpu of            *)
(* linalg/nufft_cpu.py (plan, forward, adjoint, selfadjoint, selfadjoint2  *)
(* and the private stages they call).                                      *)
(*                                                                         *)
(* Numbers.  A complex number is <<re, im, e>> and stands for              *)
(* (re + i*im) / 2^e, kept normalised (e = 0, or re and im not both even), *)
(* so equal numbers are equal tuples.  Arithmetic is exact: the rounding   *)
(* of complex64 is not modelled.  Grid sizes are 1, 2 or 4, for which the  *)
(* roots of unity of the DFT are Gaussian integers, and 1/n of the inverse *)
(* DFT is a power of two.                                                  *)
(*                                                                         *)
(* Arrays.  A numpy array is [shape |-> <<d1, .., dn>>, data |-> <<..>>],  *)
(* data in C order.  A call's outcome is [exc |-> e, val |-> array]: exc   *)
(* is "ok" or the Python exception the call raises.                        *)
(***************************************************************************)
EXTENDS Integers, Sequences, FiniteSets, TLC

\* ------------------------------------------------------------- bounds
\* samples of a plan: M in 1..MaxM
MaxM == 2
\* batch argument of plan(): None, 0, or 2^j for j in 0..MaxBatchLog
MaxBatchLog == 1
\* plan() calls in one behaviour
MaxPlans == 2
\* calls in progress at once on one operator
MaxThreads == 2
\* fractional bits kept by the square root of _precompute_sp
SqrtBits == 1

\* ------------------------------------------------------------ numbers
RECURSIVE Pow2(_)
Pow2(n) == IF n <= 0 THEN 1 ELSE 2 * Pow2(n - 1)

RECURSIVE CNorm(_, _, _)
CNorm(re, im, e) ==
  IF e > 0 /\ re % 2 = 0 /\ im % 2 = 0
  THEN CNorm(re \div 2, im \div 2, e - 1)
  ELSE <<re, im, e>>

CZero == <<0, 0, 0>>
COne == <<1, 0, 0>>
CI == <<0, 1, 0>>

CAdd(a, b) ==
  LET e == IF a[3] >= b[3] THEN a[3] ELSE b[3]
      sa == Pow2(e - a[3])
      sb == Pow2(e - b[3])
  IN CNorm(a[1] * sa + b[1] * sb, a[2] * sa + b[2] * sb, e)

CMul(a, b) ==
  CNorm(a[1] * b[1] - a[2] * b[2], a[1] * b[2] + a[2] * b[1], a[3] + b[3])

CConj(a) == <<a[1], 0 - a[2], a[3]>>

\* a / n for n a power of two
CDivN(a, n) ==
  LET k == CHOOSE j \in 0..8 : Pow2(j) = n
  IN CNorm(a[1], a[2], a[3] + k)

ISqrt(n) == CHOOSE r \in 0..n : r * r <= n /\ (r + 1) * (r + 1) > n

\* the non-negative real root of the non-negative real a, rounded down to
\* SqrtBits fractional bits beyond those of a
CSqrt(a) ==
  LET odd == a[3] % 2 = 1
      r == IF odd THEN 2 * a[1] ELSE a[1]
      e == IF odd THEN a[3] + 1 ELSE a[3]
  IN CNorm(ISqrt(r * Pow2(2 * SqrtBits)), 0, (e \div 2) + SqrtBits)

RECURSIVE CSum(_)
CSum(s) == IF s = <<>> THEN CZero ELSE CAdd(Head(s), CSum(Tail(s)))

\* ------------------------------------------------------------- arrays
RECURSIVE Prod(_)
Prod(s) == IF s = <<>> THEN 1 ELSE Head(s) * Prod(Tail(s))

Arr(shape, data) == [shape |-> shape, data |-> data]
Size(a) == Len(a.data)

\* the stride of axis d (1-based) of a C-ordered array of this shape
Stride(shape, d) == Prod(SubSeq(shape, d + 1, Len(shape)))

\* the multi-index (0-based entries) of flat position f (0-based)
Unravel(shape, f) ==
  [d \in 1..Len(shape) |-> (f \div Stride(shape, d)) % shape[d]]

RECURSIVE ISum(_)
ISum(s) == IF s = <<>> THEN 0 ELSE Head(s) + ISum(Tail(s))

Ravel(shape, idx) == ISum([d \in 1..Len(shape) |-> idx[d] * Stride(shape, d)])

Ok(a) == [exc |-> "ok", val |-> a]
Err(e) == [exc |-> e, val |-> Arr(<<>>, <<>>)]

\* ------------------------------------------------------ numpy, scipy
\* numpy.zeros(shape)
Zeros(shape) == Arr(shape, [f \in 1..Prod(shape) |-> CZero])

\* numpy.ones(shape)
Ones(shape) == Arr(shape, [f \in 1..Prod(shape) |-> COne])

\* numpy.reshape(a, shape, order='C')
Reshape(a, shape) ==
  IF Prod(shape) = Size(a) THEN Ok(Arr(shape, a.data)) ELSE Err("ValueError")

\* a shape padded on the left with ones to n axes (numpy broadcasting)
PadShape(s, n) ==
  [d \in 1..n |-> IF d <= n - Len(s) THEN 1 ELSE s[d - (n - Len(s))]]

MaxOf(a, b) == IF a >= b THEN a ELSE b

BroadcastOk(s1, s2) ==
  LET n == MaxOf(Len(s1), Len(s2))
      p1 == PadShape(s1, n)
      p2 == PadShape(s2, n)
  IN \A d \in 1..n : p1[d] = p2[d] \/ p1[d] = 1 \/ p2[d] = 1

BroadcastShape(s1, s2) ==
  LET n == MaxOf(Len(s1), Len(s2))
      p1 == PadShape(s1, n)
      p2 == PadShape(s2, n)
  IN [d \in 1..n |-> IF p1[d] = 1 THEN p2[d] ELSE p1[d]]

\* the flat position, in an operand of padded shape p, of the element that
\* broadcasting pairs with flat position f of the result of shape r
BIndex(p, r, f) ==
  LET mi == Unravel(r, f)
  IN Ravel(p, [d \in 1..Len(r) |-> IF p[d] = 1 THEN 0 ELSE mi[d]])

\* a * b of two numpy arrays
Multiply(a, b) ==
  IF ~BroadcastOk(a.shape, b.shape) THEN Err("ValueError")
  ELSE LET r == BroadcastShape(a.shape, b.shape)
           pa == PadShape(a.shape, Len(r))
           pb == PadShape(b.shape, Len(r))
       IN Ok(Arr(r, [f \in 1..Prod(r) |->
                      CMul(a.data[BIndex(pa, r, f - 1) + 1],
                           b.data[BIndex(pb, r, f - 1) + 1])]))

\* a.conj()
Conj(a) == Arr(a.shape, [f \in 1..Size(a) |-> CConj(a.data[f])])

\* a ** 0.5 of an array of non-negative reals
Sqrt(a) == Arr(a.shape, [f \in 1..Size(a) |-> CSqrt(a.data[f])])

\* a.ravel()[idx]: the values at the flat positions idx (0-based)
Take(a, idx) ==
  IF \E j \in 1..Len(idx) : idx[j] >= Size(a) THEN Err("IndexError")
  ELSE Ok(Arr(<<Len(idx)>>, [j \in 1..Len(idx) |-> a.data[idx[j] + 1]]))

\* a.ravel()[idx] = vals: when a position is listed twice the last one wins
Put(a, idx, vals) ==
  IF \E j \in 1..Len(idx) : idx[j] >= Size(a) THEN Err("IndexError")
  ELSE Ok(Arr(a.shape,
        [f \in 1..Size(a) |->
           IF \E j \in 1..Len(idx) : idx[j] = f - 1
           THEN LET j == CHOOSE j \in 1..Len(idx) :
                           /\ idx[j] = f - 1
                           /\ \A i \in 1..Len(idx) : idx[i] = f - 1 => i <= j
                IN vals.data[j]
           ELSE a.data[f]]))

\* exp(-2 pi i j / n), or exp(+2 pi i j / n) when inv, for n in {1, 2, 4}
Twiddle(n, j, inv) ==
  LET q == (j * (4 \div n)) % 4
  IN CASE q = 0 -> COne
       [] q = 1 -> IF inv THEN CI ELSE CConj(CI)
       [] q = 2 -> <<0 - 1, 0, 0>>
       [] q = 3 -> IF inv THEN CConj(CI) ELSE CI

\* the DFT of a along axis ax (0-based); the inverse one is scaled by 1/n
FFTAxis(a, ax, inv) ==
  LET n == a.shape[ax + 1]
      st == Stride(a.shape, ax + 1)
      at(f) == (f \div st) % n
      el(f) == CSum([t \in 1..n |->
                 CMul(a.data[f + (t - 1 - at(f)) * st + 1],
                      Twiddle(n, (t - 1) * at(f), inv))])
  IN Arr(a.shape, [f \in 1..Size(a) |->
                    IF inv THEN CDivN(el(f - 1), n) ELSE el(f - 1)])

RECURSIVE FFTAxes(_, _, _)
FFTAxes(a, axes, inv) ==
  IF axes = <<>> THEN a
  ELSE FFTAxes(FFTAxis(a, Head(axes), inv), Tail(axes), inv)

\* numpy.fft.fftn(a, axes = axes) and numpy.fft.ifftn(a, axes = axes)
FFTN(a, axes, inv) ==
  IF \E j \in 1..Len(axes) : axes[j] >= Len(a.shape) THEN Err("AxisError")
  ELSE IF \E j \in 1..Len(axes) : a.shape[axes[j] + 1] < 1 THEN Err("ValueError")
  ELSE Ok(FFTAxes(a, axes, inv))

\* A.dot(v) of a scipy.sparse matrix A (held dense, shape <<rows, cols>>)
\* and a numpy array v of one or two axes
Dot(A, v) ==
  IF Len(v.shape) \notin {1, 2} \/ v.shape[1] # A.shape[2] THEN Err("ValueError")
  ELSE LET b == IF Len(v.shape) = 1 THEN 1 ELSE v.shape[2]
           osh == IF Len(v.shape) = 1 THEN <<A.shape[1]>> ELSE <<A.shape[1], b>>
       IN Ok(Arr(osh, [f \in 1..(A.shape[1] * b) |->
               LET m == (f - 1) \div b
                   c == (f - 1) % b
               IN CSum([k \in 1..A.shape[2] |->
                     CMul(A.data[m * A.shape[2] + k], v.data[(k - 1) * b + c + 1])])]))

\* (a variant of getH that transposes without conjugating)
GetH_plain(A) ==
  Arr(<<A.shape[2], A.shape[1]>>,
      [f \in 1..Size(A) |->
         LET k == (f - 1) \div A.shape[1]
             m == (f - 1) % A.shape[1]
         IN A.data[m * A.shape[2] + k + 1]])

\* A.getH(): the conjugate transpose
GetH(A) ==
  Arr(<<A.shape[2], A.shape[1]>>,
      [f \in 1..Size(A) |->
         LET k == (f - 1) \div A.shape[1]
             m == (f - 1) % A.shape[1]
         IN CConj(A.data[m * A.shape[2] + k + 1])])

\* ------------------------------------------------- the operator object
NoArr == Arr(<<>>, <<>>)
None == <<>>
Some(v) == <<v>>

\* the attributes a NUFFT_cpu object can hold; s.has is the set of those
\* that are set (reading another one raises AttributeError)
NoSt == [Nd |-> <<>>, Kd |-> <<>>, Jd |-> <<>>, M |-> 0, keys |-> {}]

\* NUFFT_cpu(): dtype and debug are set once and never change; they are
\* left out of the record
Fresh ==
  [has |-> {}, ndims |-> 0, ft_axes |-> <<>>, st |-> NoSt, Nd |-> <<>>,
   Kd |-> <<>>, sn |-> NoArr, parallel_flag |-> 0, batch |-> 0,
   multi_Nd |-> <<>>, multi_Kd |-> <<>>, multi_M |-> <<>>,
   multi_prodKd |-> <<>>, sp |-> NoArr, spH |-> NoArr, Kdprod |-> 0,
   Jdprod |-> 0, NdCPUorder |-> <<>>, KdCPUorder |-> <<>>, nelem |-> 0,
   W |-> NoArr]

\* range(0, n)
Range(n) == [j \in 1..n |-> j - 1]

\* ------------------------------------------ the interpolator builder
\* helper.plan is not part of the sources: it is modelled at its interface.
\* It returns P (M x prod(Kd), complex), sn (real, shape Nd), Nd, Kd, Jd
\* and M, or raises.  Row m of P holds prod(Jd) weights on consecutive
\* columns (cyclically) starting at column m - 1.
BuilderWeight(m, j) == <<j + 1, m - 1, 0>>

BuilderP(M, K, J) ==
  Arr(<<M, K>>,
      [f \in 1..(M * K) |->
         LET m == ((f - 1) \div K) + 1
             c == (f - 1) % K
         IN CSum([j \in 1..J |->
               IF (m - 1 + j - 1) % K = c THEN BuilderWeight(m, j - 1)
               ELSE CZero])])

BuilderSn(Nd) == Arr(Nd, [f \in 1..Prod(Nd) |-> <<f, 0, 0>>])

helper_plan(a) ==
  IF a.builderRaises
  THEN [exc |-> "BuilderError", st |-> NoSt, p |-> NoArr, sn |-> NoArr]
  ELSE [exc |-> "ok",
        st |-> [Nd |-> a.Nd, Kd |-> a.Kd, Jd |-> a.Jd, M |-> a.M,
                keys |-> {"Nd", "Kd", "Jd", "M", "p", "sn"}],
        p |-> BuilderP(a.M, Prod(a.Kd), Prod(a.Jd)),
        sn |-> BuilderSn(a.Nd)]

\* helper.preindex_copy(Nd, Kd) is not part of the sources either: the two
\* reorder tables of the centred zero-padding, one entry per element of
\* the compact grid.
preindex_copy(Nd, Kd) ==
  LET n == Prod(Nd)
      off == [d \in 1..Len(Nd) |-> (Kd[d] - Nd[d]) \div 2]
      kpos(f) == LET mi == Unravel(Nd, f)
                 IN Ravel(Kd, [d \in 1..Len(Nd) |-> mi[d] + off[d]])
  IN [NdOrder |-> [j \in 1..n |-> j - 1],
      KdOrder |-> [j \in 1..n |-> kpos(j - 1)],
      nelem |-> n]

\* ---------------------------------------------------------- plan()
\* (a variant that adds the batch axis only for more than one channel)
parallel_flag_many(batchArg) ==
  IF batchArg # None /\ batchArg[1] > 1 THEN 1 ELSE 0

\* lines 99-109: batch is None: single-coil, else multi-coil
parallel_flag_of(batchArg) == IF batchArg = None THEN 0 ELSE 1

\* (a variant that reshapes the scaling array already held)
plan_sn_held(s, b, batchArg) ==
  IF batchArg = None THEN b.sn
  ELSE IF "sn" \in s.has THEN Arr(s.sn.shape \o <<1>>, s.sn.data)
  ELSE Arr(b.st.Nd \o <<1>>, b.sn.data)

\* lines 97 and 118: the scaling array held after a successful plan
plan_sn(s, b, batchArg) ==
  IF batchArg = None THEN b.sn
  ELSE Arr(b.st.Nd \o <<1>>, b.sn.data)

\* NUFFT_cpu.plan(om, Nd, Kd, Jd, ft_axes, batch): the object it leaves and
\* the exception it raises ("ok": it returns 0)
plan(s, a) ==
  LET s1 == [s EXCEPT !.has = @ \cup {"ndims", "ft_axes"},
                      !.ndims = Len(a.Nd),
                      !.ft_axes = IF a.ft_axes = None THEN Range(Len(a.Nd))
                                  ELSE a.ft_axes[1]]
      b == helper_plan(a)
      par == parallel_flag_of(a.batch)
      bat == IF a.batch = None THEN 1 ELSE a.batch[1]
      K == Prod(b.st.Kd)
      tab == preindex_copy(b.st.Nd, b.st.Kd)
  IN IF b.exc # "ok" THEN [self |-> s1, exc |-> b.exc]
     ELSE [exc |-> "ok",
           self |->
             [s1 EXCEPT
                !.has = @ \cup {"st", "Nd", "Kd", "sn", "parallel_flag",
                                "batch", "multi_Nd", "multi_Kd", "multi_M",
                                "multi_prodKd", "sp", "spH", "Kdprod",
                                "Jdprod", "NdCPUorder", "KdCPUorder", "nelem"},
                !.st = [b.st EXCEPT !.keys = @ \ {"p", "sn"}],
                !.Nd = b.st.Nd,
                !.Kd = b.st.Kd,
                !.sn = plan_sn(s, b, a.batch),
                !.parallel_flag = par,
                !.batch = bat,
                !.multi_Nd = IF par = 1 THEN b.st.Nd \o <<bat>> ELSE b.st.Nd,
                !.multi_Kd = IF par = 1 THEN b.st.Kd \o <<bat>> ELSE b.st.Kd,
                !.multi_M = IF par = 1 THEN <<b.st.M, bat>> ELSE <<b.st.M>>,
                !.multi_prodKd = IF par = 1 THEN <<K, bat>> ELSE <<K>>,
                !.sp = b.p,
                !.spH = GetH(b.p),
                !.Kdprod = K,
                !.Jdprod = Prod(b.st.Jd),
                !.NdCPUorder = tab.NdOrder,
                !.KdCPUorder = tab.KdOrder,
                !.nelem = tab.nelem]]

\* helper1.plan1 is not part of the sources: it is modelled at the
\* interface of helper.plan (coil_sense is handed to it and used nowhere else)
helper1_plan1(a) == helper_plan(a)

\* NUFFT_excalibur.plan1(om, Nd, Kd, Jd, ft_axes, coil_sense): the object it
\* leaves and the exception it raises ("ok": it returns 0).  debug is 0.
plan1(s, a) ==
  LET s1 == [s EXCEPT !.has = @ \cup {"ndims", "ft_axes"},
                      !.ndims = Len(a.Nd),
                      !.ft_axes = IF a.ft_axes = None THEN Range(Len(a.Nd))
                                  ELSE a.ft_axes[1]]
      b == helper1_plan1(a)
      tab == preindex_copy(b.st.Nd, b.st.Kd)
  IN IF b.exc # "ok" THEN [self |-> s1, exc |-> b.exc]
     ELSE [exc |-> "ok",
           self |->
             [s1 EXCEPT
                !.has = @ \cup {"st", "Nd", "Kd", "sn", "sp", "spH", "Kdprod",
                                "Jdprod", "NdCPUorder", "KdCPUorder", "nelem"},
                !.st = [b.st EXCEPT !.keys = @ \ {"p", "sn"}],
                !.Nd = b.st.Nd,
                !.Kd = b.st.Kd,
                !.sn = b.sn,
                !.sp = b.p,
                !.spH = GetH(b.p),
                !.Kdprod = Prod(b.st.Kd),
                !.Jdprod = Prod(b.st.Jd),
                !.NdCPUorder = tab.NdOrder,
                !.KdCPUorder = tab.KdOrder,
                !.nelem = tab.nelem]]

\* ------------------------------------------------- the private stages
\* Each stage takes the outcome r of the stage before it: an exception
\* raised there passes through (the stage is never entered).
Has(s, names) == names \subseteq s.has

x2xx(s, r) ==
  IF r.exc # "ok" THEN r
  ELSE IF ~Has(s, {"sn"}) THEN Err("AttributeError")
  ELSE Multiply(r.val, s.sn)

\* (a variant of the loops that lays the channels out one after the other:
\*   dst.ravel()[dstOrder + bat*size] = src.ravel()[srcOrder + bat*size])
RECURSIVE CopyLoop_block(_, _, _, _, _, _)
CopyLoop_block(dst, src, dstOrder, srcOrder, batch, bat) ==
  IF bat >= batch THEN Ok(dst)
  ELSE LET vals == Take(src, [j \in 1..Len(srcOrder) |->
                               srcOrder[j] + bat * (Size(src) \div batch)])
       IN IF vals.exc # "ok" THEN vals
          ELSE LET d2 == Put(dst, [j \in 1..Len(dstOrder) |->
                                     dstOrder[j] + bat * (Size(dst) \div batch)],
                             vals.val)
               IN IF d2.exc # "ok" THEN d2
                  ELSE CopyLoop_block(d2.val, src, dstOrder, srcOrder, batch,
                                      bat + 1)

\* the loops of xx2k and k2xx: for bat in range(0, batch):
\*   dst.ravel()[dstOrder*batch + bat] = src.ravel()[srcOrder*batch + bat]
RECURSIVE CopyLoop(_, _, _, _, _, _)
CopyLoop(dst, src, dstOrder, srcOrder, batch, bat) ==
  IF bat >= batch THEN Ok(dst)
  ELSE LET vals == Take(src, [j \in 1..Len(srcOrder) |-> srcOrder[j] * batch + bat])
       IN IF vals.exc # "ok" THEN vals
          ELSE LET d2 == Put(dst, [j \in 1..Len(dstOrder) |-> dstOrder[j] * batch + bat],
                             vals.val)
               IN IF d2.exc # "ok" THEN d2
                  ELSE CopyLoop(d2.val, src, dstOrder, srcOrder, batch, bat + 1)

\* (a variant whose buffer is not zero-filled)
xx2k_ones(s, r) ==
  IF r.exc # "ok" THEN r
  ELSE IF ~Has(s, {"multi_Kd", "batch", "KdCPUorder", "NdCPUorder", "ft_axes"})
       THEN Err("AttributeError")
  ELSE LET output_x == CopyLoop(Ones(s.multi_Kd), r.val, s.KdCPUorder,
                                s.NdCPUorder, s.batch, 0)
       IN IF output_x.exc # "ok" THEN output_x
          ELSE FFTN(output_x.val, s.ft_axes, FALSE)

\* lines 252-255: output_x, zero-filled, then written at KdCPUorder
xx2k_fill(s, r) ==
  IF r.exc # "ok" THEN r
  ELSE IF ~Has(s, {"multi_Kd", "batch", "KdCPUorder", "NdCPUorder"})
       THEN Err("AttributeError")
  ELSE CopyLoop(Zeros(s.multi_Kd), r.val, s.KdCPUorder, s.NdCPUorder,
                s.batch, 0)

\* line 257: k = numpy.fft.fftn(output_x, axes = self.ft_axes)
xx2k_fft(s, r) ==
  IF r.exc # "ok" THEN r
  ELSE IF ~Has(s, {"ft_axes"}) THEN Err("AttributeError")
  ELSE FFTN(r.val, s.ft_axes, FALSE)

xx2k(s, r) == xx2k_fft(s, xx2k_fill(s, r))

\* (a variant that reshapes without the batch axis)
k2vec_flat(s, r) ==
  IF r.exc # "ok" THEN r
  ELSE IF ~Has(s, {"Kd"}) THEN Err("AttributeError")
  ELSE Reshape(r.val, <<Prod(s.Kd)>>)

k2vec(s, r) ==
  IF r.exc # "ok" THEN r
  ELSE IF ~Has(s, {"multi_prodKd"}) THEN Err("AttributeError")
  ELSE Reshape(r.val, s.multi_prodKd)

vec2y(s, r) ==
  IF r.exc # "ok" THEN r
  ELSE IF ~Has(s, {"sp"}) THEN Err("AttributeError")
  ELSE Dot(s.sp, r.val)

k2y(s, r) == vec2y(s, k2vec(s, r))

y2vec(s, r) ==
  IF r.exc # "ok" THEN r
  ELSE IF ~Has(s, {"spH"}) THEN Err("AttributeError")
  ELSE Dot(s.spH, r.val)

vec2k(s, r) ==
  IF r.exc # "ok" THEN r
  ELSE IF ~Has(s, {"multi_Kd"}) THEN Err("AttributeError")
  ELSE Reshape(r.val, s.multi_Kd)

y2k(s, r) == vec2k(s, y2vec(s, r))

\* (a variant that transforms forward again instead of back)
k2xx_fftn(s, r) ==
  IF r.exc # "ok" THEN r
  ELSE IF ~Has(s, {"ft_axes"}) THEN Err("AttributeError")
  ELSE FFTN(r.val, s.ft_axes, FALSE)

\* line 311: k = numpy.fft.ifftn(k, axes = self.ft_axes)
k2xx_ifft(s, r) ==
  IF r.exc # "ok" THEN r
  ELSE IF ~Has(s, {"ft_axes"}) THEN Err("AttributeError")
  ELSE FFTN(r.val, s.ft_axes, TRUE)

\* lines 312-314: xx, zero-filled, then written from k at KdCPUorder
k2xx_crop(s, r) ==
  IF r.exc # "ok" THEN r
  ELSE IF ~Has(s, {"multi_Nd", "batch", "NdCPUorder", "KdCPUorder"})
       THEN Err("AttributeError")
  ELSE CopyLoop(Zeros(s.multi_Nd), r.val, s.NdCPUorder, s.KdCPUorder,
                s.batch, 0)

k2xx(s, r) == k2xx_crop(s, k2xx_ifft(s, r))

xx2x(s, r) == x2xx(s, r)

\* A.transpose(), without the conjugation
Transpose(A) == Conj(GetH(A))

\* (a variant that grids with the transpose instead of the conjugate transpose)
k2y2k_transpose(s, r) ==
  LET y == vec2y(s, k2vec(s, r))
  IN IF y.exc # "ok" THEN y
     ELSE IF ~Has(s, {"sp"}) THEN Err("AttributeError")
     ELSE vec2k(s, Dot(Transpose(s.sp), y.val))

k2y2k(s, r) == vec2k(s, y2vec(s, vec2y(s, k2vec(s, r))))

\* ------------------------------------------------- the public methods
forward(s, x) == k2y(s, xx2k(s, x2xx(s, Ok(x))))

adjoint(s, y) == xx2x(s, k2xx(s, y2k(s, Ok(y))))

selfadjoint(s, x) == xx2x(s, k2xx(s, k2y2k(s, xx2k(s, x2xx(s, Ok(x))))))

\* W*W.conj() and its root, lines 155
WeightOf(W) == Sqrt(Multiply(W, Conj(W)).val)

\* _precompute_sp(): the object it leaves and the exception it re-raises
precompute_sp(s) ==
  IF ~Has(s, {"st"}) THEN [self |-> s, exc |-> "AttributeError"]
  ELSE LET W == xx2k(s, adjoint(s, Ones(<<s.st.M>>)))
       IN IF W.exc # "ok" THEN [self |-> s, exc |-> W.exc]
          ELSE [self |-> [s EXCEPT !.has = @ \cup {"W"}, !.W = WeightOf(W.val)],
                exc |-> "ok"]

\* k2xx(self.W * xx2k(x))
weighted(s, x) ==
  IF ~Has(s, {"W"}) THEN Err("AttributeError")
  ELSE LET k == xx2k(s, Ok(x))
       IN IF k.exc # "ok" THEN k ELSE k2xx(s, Multiply(s.W, k.val))

\* selfadjoint2(x): the result, the object it leaves, and how many times it
\* ran _precompute_sp
selfadjoint2(s, x) ==
  LET try == weighted(s, x)
      pre == precompute_sp(s)
  IN IF try.exc = "ok" THEN [res |-> try, self |-> s, runs |-> 0]
     ELSE IF pre.exc # "ok" THEN [res |-> Err(pre.exc), self |-> s, runs |-> 1]
     ELSE [res |-> weighted(pre.self, x), self |-> pre.self, runs |-> 1]

\* (a variant of selfadjoint on the lazy weighting, the disabled line 222)
selfadjoint_lazy(s, x) ==
  LET r == selfadjoint2(s, x) IN [res |-> r.res, self |-> r.self, x |-> x]

\* A call of forward, adjoint or selfadjoint: what it returns or raises,
\* the object it leaves and its argument array as it leaves it.  The
\* methods and their stages assign no attribute of self and bind every
\* array they compute to a local name.
forward_call(s, x) == [res |-> forward(s, x), self |-> s, x |-> x]

adjoint_call(s, y) == [res |-> adjoint(s, y), self |-> s, x |-> y]

selfadjoint_call(s, x) == [res |-> selfadjoint(s, x), self |-> s, x |-> x]

\* ------------------------------------ class NUFFT (transform_cpu.py)
\* A.dot(B) of two sparse matrices
MatMul(A, B) ==
  Arr(<<A.shape[1], B.shape[2]>>,
      [f \in 1..(A.shape[1] * B.shape[2]) |->
         LET r == (f - 1) \div B.shape[2]
             c == (f - 1) % B.shape[2]
         IN CSum([k \in 1..A.shape[2] |->
               CMul(A.data[r * A.shape[2] + k], B.data[(k - 1) * B.shape[2] + c + 1])])])

\* NUFFT.plan(om, Nd, Kd, Jd), builder not raising.  NUFFT has no batch; its
\* fields Nd, Kd, sn, ndims, sp, spH and the reorder tables are those of a
\* NUFFT_cpu planned without batch, and its stages x2xx, xx2k, k2vec, vec2y,
\* y2vec, vec2k, k2xx, xx2x are NUFFT_cpu's for one channel (it transforms
\* over range(0, ndims), reshapes to (prod(Kd),) and to Kd).  The object is
\* held in a record of the same form, so that those stages apply to it; st['p']
\* (the builder's matrix times the unit phases of _linear_phase) is a complex
\* M x prod(Kd) matrix: the builder's.  spHsp is NUFFT_spHsp.
NUFFT_plan(a) ==
  plan(Fresh, [a EXCEPT !.ft_axes = None, !.batch = None,
                        !.builderRaises = FALSE]).self

\* _precompute_sp, line 96
NUFFT_spHsp(n) == MatMul(GetH(n.sp), n.sp)

NUFFT_k2y2k(n, r) ==
  LET Xk == k2vec(n, r)
  IN IF Xk.exc # "ok" THEN Xk
     ELSE vec2k(n, Dot(NUFFT_spHsp(n), Xk.val))

NUFFT_forward(n, x) == k2y(n, xx2k(n, x2xx(n, Ok(x))))

NUFFT_adjoint(n, y) == xx2x(n, k2xx(n, y2k(n, Ok(y))))

NUFFT_selfadjoint(n, x) ==
  xx2x(n, k2xx(n, NUFFT_k2y2k(n, xx2k(n, x2xx(n, Ok(x))))))

\* ------------------------------------------------------------ inputs
\* grid geometries (sizes 1, 2, 4 only, see the head of the module)
Geometries ==
  { [Nd |-> <<2>>, Kd |-> <<4>>, Jd |-> <<2>>],
    [Nd |-> <<2, 1>>, Kd |-> <<2, 2>>, Jd |-> <<1, 1>>] }

BatchSizes == {0} \cup {Pow2(j) : j \in 0..MaxBatchLog}

\* ft_axes is None or all the axes; batch is None or a batch size
ArgsOf(g) ==
  { [Nd |-> g.Nd, Kd |-> g.Kd, Jd |-> g.Jd, M |-> m, ft_axes |-> fa,
     batch |-> b, builderRaises |-> br] :
      m \in 1..MaxM, fa \in {None, Some(Range(Len(g.Nd)))},
      b \in {None} \cup {Some(n) : n \in BatchSizes}, br \in BOOLEAN }

PlanArgs == UNION {ArgsOf(g) : g \in Geometries}

\* plan1 takes no batch
Plan1Args == {a \in PlanArgs : a.batch = None}

NoArgs ==
  [Nd |-> <<>>, Kd |-> <<>>, Jd |-> <<>>, M |-> 0, ft_axes |-> None,
   batch |-> None, builderRaises |-> FALSE]

Vals == << COne, CI, <<2, 0 - 1, 0>>, CZero, <<0 - 1, 0, 0>> >>

Ramp(n, seed) == [j \in 1..n |-> Vals[((2 * seed + j - 1) % Len(Vals)) + 1]]

Seeds == {0, 1}

ArraysOf(shapes) ==
  { Arr(sh, Ramp(Prod(sh), seed)) : sh \in shapes, seed \in Seeds }

ImageShapes ==
  {g.Nd : g \in Geometries}
    \cup {g.Nd \o <<b>> : g \in Geometries, b \in BatchSizes}
    \cup {<<1>>}

SampleShapes ==
  {<<m>> : m \in 1..MaxM} \cup {<<m, b>> : m \in 1..MaxM, b \in BatchSizes}

ImageInputs == ArraysOf(ImageShapes)
SampleInputs == ArraysOf(SampleShapes)

\* ------------------------------------------------ calls in progress
Threads == 1..MaxThreads

NoThread == [op |-> "none", x |-> NoArr, pc |-> 0, val |-> Ok(NoArr)]

NoMem == [th |-> [t \in Threads |-> NoThread], shared |-> Ok(NoArr)]

\* the stages a public method goes through, innermost call first
Stages(op) ==
  IF op = "forward"
  THEN <<"x2xx", "xx2k_fill", "xx2k_fft", "k2vec", "vec2y">>
  ELSE IF op = "adjoint"
  THEN <<"y2vec", "vec2k", "k2xx_ifft", "k2xx_crop", "xx2x">>
  ELSE IF op = "selfadjoint"
  THEN <<"x2xx", "xx2k_fill", "xx2k_fft", "k2vec", "vec2y", "y2vec", "vec2k",
         "k2xx_ifft", "k2xx_crop", "xx2x">>
  ELSE <<>>

Stage(s, name, r) ==
  CASE name = "x2xx" -> x2xx(s, r)
    [] name = "xx2k_fill" -> xx2k_fill(s, r)
    [] name = "xx2k_fft" -> xx2k_fft(s, r)
    [] name = "k2vec" -> k2vec(s, r)
    [] name = "vec2y" -> vec2y(s, r)
    [] name = "y2vec" -> y2vec(s, r)
    [] name = "vec2k" -> vec2k(s, r)
    [] name = "k2xx_ifft" -> k2xx_ifft(s, r)
    [] name = "k2xx_crop" -> k2xx_crop(s, r)
    [] name = "xx2x" -> xx2x(s, r)

\* (a variant in which the stages work on one buffer held by the operator)
Buffer_shared(m, t) == IF m.th[t].pc = 0 THEN m.th[t].val ELSE m.shared

\* the array the next stage of thread t is handed: the one the stage
\* before it returned to this call (xx, output_x, k, k_vec, y: all locals)
Buffer(m, t) == m.th[t].val

\* the call run alone
Alone(s, op, x) ==
  IF op = "forward" THEN forward(s, x)
  ELSE IF op = "adjoint" THEN adjoint(s, x)
  ELSE selfadjoint(s, x)

\* ------------------------------------------------------ state machine
VARIABLES
  self,     \* the NUFFT_cpu object
  last,     \* the call that has just returned or raised: its name, its
            \* array argument as passed (x) and as the call left it (xafter),
            \* its outcome ("idle": none, the caller moved on)
  snap,     \* the arguments of the last plan() that returned, the object it left
  replan,   \* the last call was a plan() that returned, with the arguments of
            \* the plan() that returned before it
  nplans,   \* plan() calls so far
  mem       \* the calls in progress at once (none outside SpecConcurrent):
            \* mem.th[t] is the call of thread t, its position and the
            \* array its local name is bound to; mem.shared is the array
            \* most recently computed by any thread

vars == <<self, last, snap, replan, nplans, mem>>

\* last.runs: how many times the call ran _precompute_sp
Idle == [op |-> "idle", x |-> NoArr, xafter |-> NoArr, res |-> Ok(NoArr), runs |-> 0]

Init ==
  /\ self = Fresh
  /\ last = Idle
  /\ snap = [args |-> NoArgs, self |-> Fresh]
  /\ replan = FALSE
  /\ nplans = 0
  /\ mem = NoMem

Plan ==
  \E a \in PlanArgs :
    LET r == plan(self, a)
    IN /\ last.op = "idle"
       /\ nplans < MaxPlans
       /\ nplans' = nplans + 1
       /\ self' = r.self
       /\ last' = [op |-> "plan", x |-> NoArr, xafter |-> NoArr, runs |-> 0,
                   res |-> [exc |-> r.exc, val |-> NoArr]]
       /\ snap' = IF r.exc = "ok" THEN [args |-> a, self |-> r.self] ELSE snap
       /\ replan' = (r.exc = "ok" /\ snap.args = a)
       /\ UNCHANGED mem

\* plan1 of the subclass NUFFT_excalibur, on an object of that class
Plan1 ==
  \E a \in Plan1Args :
    LET r == plan1(self, a)
    IN /\ last.op = "idle"
       /\ nplans < MaxPlans
       /\ nplans' = nplans + 1
       /\ self' = r.self
       /\ last' = [op |-> "plan1", x |-> NoArr, xafter |-> NoArr, runs |-> 0,
                   res |-> [exc |-> r.exc, val |-> NoArr]]
       /\ replan' = FALSE
       /\ UNCHANGED <<snap, mem>>

Forward ==
  \E x \in ImageInputs :
    LET r == forward_call(self, x)
    IN /\ last.op = "idle"
       /\ self' = r.self
       /\ last' = [op |-> "forward", x |-> x, xafter |-> r.x, res |-> r.res,
                   runs |-> 0]
       /\ UNCHANGED <<snap, replan, nplans, mem>>

Adjoint ==
  \E y \in SampleInputs :
    LET r == adjoint_call(self, y)
    IN /\ last.op = "idle"
       /\ self' = r.self
       /\ last' = [op |-> "adjoint", x |-> y, xafter |-> r.x, res |-> r.res,
                   runs |-> 0]
       /\ UNCHANGED <<snap, replan, nplans, mem>>

Selfadjoint ==
  \E x \in ImageInputs :
    LET r == selfadjoint_call(self, x)
    IN /\ last.op = "idle"
       /\ self' = r.self
       /\ last' = [op |-> "selfadjoint", x |-> x, xafter |-> r.x, res |-> r.res,
                   runs |-> 0]
       /\ UNCHANGED <<snap, replan, nplans, mem>>

Selfadjoint2 ==
  \E x \in ImageInputs :
    LET r == selfadjoint2(self, x)
    IN /\ last.op = "idle"
       /\ self' = r.self
       /\ last' = [op |-> "selfadjoint2", x |-> x, xafter |-> x, res |-> r.res,
                   runs |-> r.runs]
       /\ UNCHANGED <<snap, replan, nplans, mem>>

\* selfadjoint of a NUFFT object planned with the geometry and samples of
\* the last plan() that returned
SelfadjointNUFFT ==
  \E x \in ImageInputs :
    /\ last.op = "idle"
    /\ snap.args # NoArgs
    /\ last' = [op |-> "NUFFT.selfadjoint", x |-> x, xafter |-> x, runs |-> 0,
                res |-> NUFFT_selfadjoint(NUFFT_plan(snap.args), x)]
    /\ UNCHANGED <<self, snap, replan, nplans, mem>>

\* the caller has the outcome of the call and goes on to its next call
Return ==
  /\ last.op # "idle"
  /\ last' = Idle
  /\ replan' = FALSE
  /\ UNCHANGED <<self, snap, nplans, mem>>

Next ==
  \/ Plan
  \/ Plan1
  \/ Forward
  \/ Adjoint
  \/ Selfadjoint
  \/ Selfadjoint2
  \/ SelfadjointNUFFT
  \/ Return

Spec == Init /\ [][Next]_vars

\* ---------------------------- concurrent calls on one planned operator
\* plans that return, with batch omitted or >= 1
ConcurrentPlans ==
  {a \in PlanArgs : /\ ~a.builderRaises /\ a.ft_axes = None
                    /\ a.M = MaxM
                    /\ (a.batch = None \/ a.batch[1] >= 1)}

InitConcurrent ==
  \E a \in ConcurrentPlans :
    /\ self = plan(Fresh, a).self
    /\ snap = [args |-> a, self |-> plan(Fresh, a).self]
    /\ last = Idle
    /\ replan = FALSE
    /\ nplans = 1
    /\ mem = NoMem

\* thread t enters forward, adjoint or selfadjoint
Call(t) ==
  /\ mem.th[t].op = "none"
  /\ \E op \in {"forward", "adjoint", "selfadjoint"} :
       \E x \in (IF op = "adjoint"
                 THEN {y \in SampleInputs : y.shape = self.multi_M}
                 ELSE {v \in ImageInputs : v.shape = self.multi_Nd}) :
         mem' = [mem EXCEPT !.th[t] = [op |-> op, x |-> x, pc |-> 0,
                                       val |-> Ok(x)]]
  /\ UNCHANGED <<self, last, snap, replan, nplans>>

\* thread t runs its next stage
Step(t) ==
  /\ mem.th[t].op # "none"
  /\ mem.th[t].pc < Len(Stages(mem.th[t].op))
  /\ LET v == Stage(self, Stages(mem.th[t].op)[mem.th[t].pc + 1], Buffer(mem, t))
     IN mem' = [th |-> [mem.th EXCEPT ![t].pc = @ + 1, ![t].val = v],
                shared |-> v]
  /\ UNCHANGED <<self, last, snap, replan, nplans>>

NextConcurrent == \E t \in Threads : Call(t) \/ Step(t)

SpecConcurrent == InitConcurrent /\ [][NextConcurrent]_vars

\* ------------------------------------------------------------ claims
\* the plan state of an object: all of it but the lazy weighting
PlanState(s) == [s EXCEPT !.W = NoArr, !.has = @ \ {"W"}]

\* the object holds the plan state that the last plan() that returned left
Planned == snap.args # NoArgs /\ PlanState(self) = PlanState(snap.self)

\* the image and sample shapes that plan()'s arguments ask for
ImageShape(a) == IF a.batch = None THEN a.Nd ELSE a.Nd \o <<a.batch[1]>>
SampleShape(a) == IF a.batch = None THEN <<a.M>> ELSE <<a.M, a.batch[1]>>
BatchOk(a) == a.batch = None \/ a.batch[1] >= 1

NonZero(arr) == \E j \in 1..Size(arr) : arr.data[j] # CZero

\* C1: on a planned operator (batch omitted or >= 1), selfadjoint(x) of an
\* input of the planned image shape returns what adjoint(forward(x))
\* returns; so does NUFFT.selfadjoint, which multiplies by spHsp = P^H P.
SelfadjointIsAdjointOfForward ==
  /\ (last.op = "selfadjoint" /\ Planned /\ BatchOk(snap.args)
        /\ last.x.shape = ImageShape(snap.args))
       => /\ last.res.exc = "ok"
          /\ last.res = adjoint(self, forward(self, last.x).val)
  /\ (last.op = "NUFFT.selfadjoint" /\ last.x.shape = snap.args.Nd)
       => LET n == NUFFT_plan(snap.args)
          IN /\ last.res.exc = "ok"
             /\ last.res = NUFFT_adjoint(n, NUFFT_forward(n, last.x).val)

SelfadjointOnBatchSeen ==
  /\ last.op = "selfadjoint" /\ Planned
  /\ snap.args.batch = Some(2) /\ snap.args.M = 2
  /\ last.x.shape = ImageShape(snap.args)
  /\ last.res.exc = "ok" /\ NonZero(last.res.val)

\* <a, b>, the complex inner product of two arrays of one size
Inner(a, b) == CSum([j \in 1..Size(a) |-> CMul(a.data[j], CConj(b.data[j]))])

\* C2: on a planned operator, <forward(x), y> = <x, adjoint(y)> for x of the
\* planned image shape and every y of the planned sample shape.
AdjointDuality ==
  (last.op = "forward" /\ Planned /\ BatchOk(snap.args)
     /\ last.x.shape = ImageShape(snap.args) /\ last.res.exc = "ok")
    => \A y \in SampleInputs :
         y.shape = SampleShape(snap.args)
           => Inner(last.res.val, y) = Inner(last.x, adjoint(self, y).val)

Scalars == {COne, CI, <<0 - 1, 0, 0>>, <<2, 1, 0>>}

\* a*x + b*y of two arrays of one shape
Combine(a, x, b, y) ==
  Arr(x.shape, [j \in 1..Size(x) |-> CAdd(CMul(a, x.data[j]), CMul(b, y.data[j]))])

\* C3: forward is linear on arrays of the planned image shape.
ForwardLinear ==
  (last.op = "forward" /\ Planned /\ BatchOk(snap.args)
     /\ last.x.shape = ImageShape(snap.args))
    => /\ last.res.exc = "ok"
       /\ \A x2 \in ImageInputs : \A a \in Scalars : \A b \in Scalars :
            x2.shape = last.x.shape
              => LET f2 == forward(self, x2)
                     fc == forward(self, Combine(a, last.x, b, x2))
                 IN /\ f2.exc = "ok" /\ fc.exc = "ok"
                    /\ fc.val = Combine(a, last.res.val, b, f2.val)

ForwardSeen ==
  /\ last.op = "forward" /\ Planned /\ BatchOk(snap.args)
  /\ last.x.shape = ImageShape(snap.args)
  /\ snap.args.M = 2 /\ Len(snap.args.Nd) = 2
  /\ last.res.exc = "ok" /\ NonZero(last.res.val)

\* C4: after plan() with M samples and batch omitted, forward maps shape Nd
\* to (M,) and adjoint (M,) to Nd; with batch = b >= 1, forward maps
\* Nd+(b,) to (M, b) and adjoint (M, b) to Nd+(b,); selfadjoint returns
\* the shape of its input.
ShapeContract ==
  (Planned /\ BatchOk(snap.args))
    => /\ (last.op = "forward" /\ last.x.shape = ImageShape(snap.args))
            => /\ last.res.exc = "ok"
               /\ last.res.val.shape = SampleShape(snap.args)
       /\ (last.op = "adjoint" /\ last.x.shape = SampleShape(snap.args))
            => /\ last.res.exc = "ok"
               /\ last.res.val.shape = ImageShape(snap.args)
       /\ (last.op = "selfadjoint" /\ last.x.shape = ImageShape(snap.args))
            => /\ last.res.exc = "ok"
               /\ last.res.val.shape = last.x.shape

BatchForwardSeen ==
  /\ last.op = "forward" /\ Planned
  /\ snap.args.batch = Some(2)
  /\ last.x.shape = snap.args.Nd \o <<2>>
  /\ last.res.exc = "ok"
  /\ last.res.val.shape = <<snap.args.M, 2>>

\* C5 as claimed: plan(..., batch = 1) leaves the shapes of plan() with
\* batch omitted: image shape Nd, oversampled shape Kd, sample shape (M,),
\* sn of shape Nd.
BatchOneIsSingleChannel ==
  (last.op = "plan" /\ last.res.exc = "ok" /\ snap.args.batch = Some(1))
    => /\ self.multi_Nd = snap.args.Nd
       /\ self.multi_Kd = snap.args.Kd
       /\ self.multi_M = <<snap.args.M>>
       /\ self.sn.shape = snap.args.Nd

\* C5 as amended: the trailing axis is there whenever batch is given, 1
\* included: with batch = b >= 1 the shapes are Nd+(b,), Kd+(b,), (M, b)
\* and sn has shape Nd+(1,); they are Nd, Kd, (M,) and Nd only when batch
\* is omitted.
BatchAxisWheneverGiven ==
  (last.op = "plan" /\ last.res.exc = "ok" /\ BatchOk(snap.args))
    => LET a == snap.args
       IN /\ self.multi_Nd = ImageShape(a)
          /\ self.multi_Kd = (IF a.batch = None THEN a.Kd ELSE a.Kd \o <<a.batch[1]>>)
          /\ self.multi_M = SampleShape(a)
          /\ self.sn.shape = (IF a.batch = None THEN a.Nd ELSE a.Nd \o <<1>>)
          /\ (a.batch = None <=> self.multi_Nd = a.Nd)

BatchOnePlanned ==
  /\ last.op = "plan" /\ last.res.exc = "ok"
  /\ snap.args.batch = Some(1)
  /\ self.multi_Nd = snap.args.Nd \o <<1>>

\* C6: a plan() that returns, called with the arguments of the plan() that
\* returned before it, leaves an operator whose forward and adjoint return,
\* for every input, what they returned on the operator the earlier plan()
\* left, whatever was called between the two.
PlanIdempotent ==
  [][ replan'
        => /\ \A x \in ImageInputs : forward(self', x) = forward(snap.self, x)
           /\ \A y \in SampleInputs : adjoint(self', y) = adjoint(snap.self, y)
    ]_vars

ReplanAfterTransformsSeen ==
  /\ replan /\ last.op = "plan" /\ last.res.exc = "ok"
  /\ snap.args.batch = Some(1)
  /\ "W" \in self.has
  /\ \E x \in ImageInputs : forward(self, x).exc = "ok" /\ NonZero(forward(self, x).val)

\* C7: plan() raises ConfigurationError for batch <= 0, so a plan() that
\* returns was called with batch omitted or batch >= 1.
PlanRejectsBadBatch ==
  (last.op = "plan" /\ last.res.exc = "ok") => BatchOk(snap.args)

\* C8: a plan() that raises leaves every plan state field as it was before
\* the call.
FailedPlanKeepsState ==
  [][ (last'.op = "plan" /\ last'.res.exc # "ok")
        => PlanState(self') = PlanState(self) ]_vars

\* C9: on a planned operator, forward, adjoint and selfadjoint raise
\* ShapeMismatchError for an input whose shape is not the planned one.
ShapeMismatchRaised ==
  (Planned /\ BatchOk(snap.args))
    => /\ (last.op \in {"forward", "selfadjoint"}
             /\ last.x.shape # ImageShape(snap.args))
            => last.res.exc = "ShapeMismatchError"
       /\ (last.op = "adjoint" /\ last.x.shape # SampleShape(snap.args))
            => last.res.exc = "ShapeMismatchError"

\* C10: a selfadjoint2 call on an operator that holds W does not run
\* _precompute_sp, whether the call succeeds or fails.
NoRecomputeWhileComputed ==
  [][ (last'.op = "selfadjoint2" /\ "W" \in self.has) => last'.runs = 0 ]_vars

\* C11: the first selfadjoint2 that returns after a plan() works with the
\* W computed from the plan state that plan() left, never with the W
\* cached under the plan before it.
WeightFromCurrentPlan ==
  (last.op = "selfadjoint2" /\ last.res.exc = "ok" /\ Planned)
    => LET p == precompute_sp(PlanState(self))
       IN p.exc = "ok" /\ self.W = p.self.W

GriddingDuality(s) ==
  \A k \in ArraysOf({s.multi_Kd}) : \A y \in ArraysOf({s.multi_M}) :
    LET ky == k2y(s, Ok(k))
        yk == y2k(s, Ok(y))
    IN /\ ky.exc = "ok" /\ yk.exc = "ok"
       /\ Inner(ky.val, y) = Inner(k, yk.val)

\* C14: in every state that holds sp and spH, spH is the conjugate
\* transpose of sp; after a plan() that returned (batch omitted or >= 1)
\* and any transforms since, gridding is the exact adjoint of
\* interpolation; no call but plan() and plan1() assigns sp or spH.
GriddingIsAdjointOfInterpolation ==
  [][ Has(self', {"sp", "spH"})
        => /\ self'.spH = GetH(self'.sp)
           /\ (Planned' /\ BatchOk(snap'.args)) => GriddingDuality(self')
           /\ last'.op \notin {"plan", "plan1"}
                => (self'.sp = self.sp /\ self'.spH = self.spH)
    ]_vars

ComplexInterpolatorAfterCalls ==
  /\ last.op = "selfadjoint2" /\ Planned /\ "W" \in self.has
  /\ snap.args.M = 2 /\ snap.args.batch = Some(1)
  /\ \E j \in 1..Size(self.spH) : self.spH.data[j][2] # 0
  /\ \E k \in ArraysOf({self.multi_Kd}) : NonZero(k2y(self, Ok(k)).val)

\* channel j of an array whose last axis is the batch axis
Channel(arr, j) ==
  LET b == arr.shape[Len(arr.shape)]
  IN Arr(SubSeq(arr.shape, 1, Len(arr.shape) - 1),
         [f \in 1..(Size(arr) \div b) |-> arr.data[(f - 1) * b + j + 1]])

\* the operator planned with the same geometry and samples, batch omitted
SingleChannel(a) == plan(Fresh, [a EXCEPT !.batch = None]).self

\* C15: on an operator planned with batch = b >= 1, channel j of
\* forward(x), adjoint(y) and selfadjoint(x) is the single-channel
\* forward, adjoint and selfadjoint of channel j of the input, for every
\* j in 0..b-1.
ChannelsIndependent ==
  (Planned /\ snap.args.batch # None /\ BatchOk(snap.args)
     /\ last.op \in {"forward", "adjoint", "selfadjoint"}
     /\ last.x.shape = (IF last.op = "adjoint" THEN SampleShape(snap.args)
                        ELSE ImageShape(snap.args)))
    => /\ last.res.exc = "ok"
       /\ \A j \in 0..(snap.args.batch[1] - 1) :
            Ok(Channel(last.res.val, j))
              = Alone(SingleChannel(snap.args), last.op, Channel(last.x, j))

TwoChannelsTransformed ==
  /\ Planned /\ snap.args.batch = Some(2) /\ Len(snap.args.Nd) = 2
  /\ last.op = "selfadjoint" /\ last.x.shape = ImageShape(snap.args)
  /\ last.res.exc = "ok"
  /\ Channel(last.res.val, 0) # Channel(last.res.val, 1)

\* a reorder table lists no position twice
Injective(order) ==
  \A i \in 1..Len(order) : \A j \in 1..Len(order) :
    order[i] = order[j] => i = j

\* the flat positions of the oversampled buffer that xx2k writes
Listed(s) ==
  {s.KdCPUorder[i] * s.batch + bat :
     i \in 1..Len(s.KdCPUorder), bat \in 0..(s.batch - 1)}

\* C16: on a planned operator whose reorder tables both have prod(Nd)
\* entries and list no position twice, k2xx(xx2k(xx)) = xx for every xx of
\* the planned shape, and the buffer xx2k transforms is zero at every
\* position that KdCPUorder does not list.
CropReversesPad ==
  (Planned /\ BatchOk(snap.args)
     /\ Len(self.NdCPUorder) = Prod(self.Nd)
     /\ Len(self.KdCPUorder) = Prod(self.Nd)
     /\ Injective(self.NdCPUorder) /\ Injective(self.KdCPUorder))
    => \A xx \in ImageInputs :
         xx.shape = self.multi_Nd
           => LET buf == xx2k_fill(self, Ok(xx))
              IN /\ k2xx(self, xx2k(self, Ok(xx))) = Ok(xx)
                 /\ buf.exc = "ok"
                 /\ \A q \in 0..(Size(buf.val) - 1) :
                      q \notin Listed(self) => buf.val.data[q + 1] = CZero

PaddedGridSeen ==
  /\ Planned /\ snap.args.batch = Some(2) /\ snap.args.Kd = <<4>>
  /\ last.op = "selfadjoint" /\ last.x.shape = self.multi_Nd
  /\ last.res.exc = "ok"
  /\ LET buf == xx2k_fill(self, Ok(last.x))
     IN /\ \E q \in Listed(self) : buf.val.data[q + 1] # CZero
        /\ \E q \in 0..(Size(buf.val) - 1) : q \notin Listed(self)
  /\ k2xx(self, xx2k(self, Ok(last.x))) = Ok(last.x)

\* C17: on an operator planned with batch > 1, a selfadjoint2(x) that has
\* to build W, with x of shape Nd+(batch,), builds it without error, leaves
\* W held and returns an array of shape Nd+(batch,).
LazyWeightingOnBatch ==
  (last.op = "selfadjoint2" /\ Planned /\ last.runs = 1
     /\ snap.args.batch # None /\ snap.args.batch[1] > 1
     /\ last.x.shape = ImageShape(snap.args))
    => /\ last.res.exc = "ok"
       /\ "W" \in self.has
       /\ last.res.val.shape = ImageShape(snap.args)

\* C18: after plan1 returns 0, batch, multi_Nd, multi_Kd, multi_M and
\* multi_prodKd are set and agree with the Nd, Kd and M that the plan1 call
\* set.
Plan1EstablishesShapes ==
  (last.op = "plan1" /\ last.res.exc = "ok")
    => /\ Has(self, {"batch", "multi_Nd", "multi_Kd", "multi_M", "multi_prodKd"})
       /\ self.multi_Nd \in {self.Nd, self.Nd \o <<self.batch>>}
       /\ self.multi_Kd \in {self.Kd, self.Kd \o <<self.batch>>}
       /\ self.multi_M \in {<<self.st.M>>, <<self.st.M, self.batch>>}
       /\ self.multi_prodKd \in {<<Prod(self.Kd)>>, <<Prod(self.Kd), self.batch>>}

====
